---- MODULE Spec2Model ----
(***************************************************************************)
(* A model of notebooks/dba_utils.py: five utilities over pandas tables.   *)
(* A caller holds Python objects (a DataFrame, lists, a dict, ...), calls  *)
(* one of the utilities on them, and observes the returned value or the    *)
(* raised exception, what was printed, and the objects after the call.     *)
(***************************************************************************)
EXTENDS Integers, Sequences, FiniteSets, TLC

\* ------------------------------------------------------------- bounds
MaxCols == 2          \* columns of a table
MaxList == 1          \* names in a keep / drop / columns list
MaxPrinted == 1       \* notices kept on stdout
MaxNames == 2         \* names in a name sequence
MaxLen == 3           \* characters in a name sequence, all names together
MaxSeries == 2        \* values of a column to recode
MaxRecode == 2        \* entries of a recode dictionary
MaxStatCols == 1      \* columns of a table to describe

\* ------------------------------------------------------ Python values
\* Every Python object is a record tagged with its type.
None == [type |-> "NoneType"]
List(s) == [type |-> "list", items |-> s]
Tuple(s) == [type |-> "tuple", items |-> s]
Str(s) == [type |-> "str", items |-> s]
Index(s) == [type |-> "Index", items |-> s]
Dict(ps) == [type |-> "dict", pairs |-> ps]
Omitted == [type |-> "omitted"]       \* a parameter the caller leaves out
DataFrame(cs) == [type |-> "DataFrame", cols |-> cs]
Series(vs) == [type |-> "Series", values |-> vs]
Bool(b) == [type |-> "bool", value |-> b]
Categorical(vs, cats, ord) ==
    [type |-> "Categorical", values |-> vs, categories |-> cats, ordered |-> ord]

Range(s) == {s[i] : i \in 1..Len(s)}
Injective(s) == \A i, j \in 1..Len(s) : s[i] = s[j] => i = j

\* The outcome of a call: a returned value or a raised exception.
Return(v) == [kind |-> "ok", value |-> v]
Raise(e) == [kind |-> e, value |-> None]
Pending == [kind |-> "pending", value |-> None]

isinstance(x, t) == x.type = t

\* bool(x), as `if x and ...` evaluates it: None and empty containers are
\* false, non-empty ones true, and a pandas Index refuses (ValueError).
truth(x) ==
    CASE x.type = "NoneType" -> "False"
      [] x.type \in {"list", "tuple", "str"} ->
            IF Len(x.items) > 0 THEN "True" ELSE "False"
      [] x.type = "Index" -> "ValueError"

\* ------------------------------------------------------------- tables
NaN == "NaN"

\* Series.nunique(): the number of distinct non-missing values.
nunique_dropna_false(values) == Cardinality(Range(values))
nunique(values) == Cardinality(Range(values) \ {NaN})

column_names(d) == [i \in 1..Len(d.cols) |-> d.cols[i].name]

\* df.nunique(): the count of every column, in column order.
df_nunique(d) == [i \in 1..Len(d.cols) |-> nunique(d.cols[i].values)]

\* df.columns[mask] with a boolean mask: the names at the true positions,
\* in order.
columns_where(d, mask) ==
    LET kept == SelectSeq([i \in 1..Len(d.cols) |-> i], LAMBDA i : mask[i])
    IN  [j \in 1..Len(kept) |-> d.cols[kept[j]].name]

informative_columns(d) ==
    LET n == df_nunique(d)
    IN  [type |-> "tuple",
         no_information |-> columns_where(d, [i \in DOMAIN n |-> n[i] = 0]),
         always_the_same |-> columns_where(d, [i \in DOMAIN n |-> n[i] = 1]),
         contains_information |-> columns_where(d, [i \in DOMAIN n |-> n[i] > 1])]

\* DataFrame.drop(columns=labels): KeyError when a label is no column;
\* otherwise a new table without the labelled columns. self is the
\* receiver after the call.
DataFrame_drop_inplace(d, labels) ==
    IF \E i \in 1..Len(labels) : labels[i] \notin Range(column_names(d))
    THEN [self |-> d, ret |-> Raise("KeyError")]
    ELSE [self |-> DataFrame(SelectSeq(d.cols,
                        LAMBDA c : c.name \notin Range(labels))),
          ret |-> Return(None)]
DataFrame_drop(d, labels) ==
    IF \E i \in 1..Len(labels) : labels[i] \notin Range(column_names(d))
    THEN [self |-> d, ret |-> Raise("KeyError")]
    ELSE [self |-> d,
          ret |-> Return(DataFrame(SelectSeq(d.cols,
                        LAMBDA c : c.name \notin Range(labels))))]

\* `delete - set(keep)` with delete a list: list has no __sub__ and set's
\* __rsub__ rejects a list, so the interpreter raises TypeError.
list_sub_set(delete, s) == Raise("TypeError")

isinstance_sequence(x) == x.type \in {"list", "tuple"}
isinstance_list(x) == isinstance(x, "list")

\* The whole of drop_no_information_columns: ret is the outcome, printed
\* the lines written to stdout, df the caller's table after the call.
default_delete_empty_only(info) == info.no_information
default_delete(info) == info.no_information \o info.always_the_same

drop_no_information_columns(d, k, dr) ==
    LET info == informative_columns(d)
        delete0 == default_delete(info)
    IN  IF truth(dr) = "ValueError"
        THEN [ret |-> Raise("ValueError"), printed |-> <<>>, df |-> d]
        ELSE
        LET delete1 == IF truth(dr) = "True" /\ isinstance_list(dr)
                       THEN delete0 \o dr.items ELSE delete0
        IN  IF truth(k) = "ValueError"
            THEN [ret |-> Raise("ValueError"), printed |-> <<>>, df |-> d]
            ELSE IF truth(k) = "True" /\ isinstance_list(k)
            THEN [ret |-> list_sub_set(delete1, Range(k.items)),
                  printed |-> <<>>, df |-> d]
            ELSE LET r == DataFrame_drop(d, delete1)
                 IN  [ret |-> r.ret, printed |-> <<delete1>>, df |-> r.self]

\* ------------------------------------------------------------ strings
\* A string is a sequence of characters; auml, ouml, uuml and szlig stand
\* for the four German letters of the default character map.
Lowercase == {"a", "e", "o", "s", "u"}
Uppercase == {"A", "E", "O", "S", "U"}
Digits == {"0", "1"}
Whitespace == {" "}

lower_char(c) ==
    CASE c = "A" -> "a" [] c = "E" -> "e" [] c = "O" -> "o"
      [] c = "S" -> "s" [] c = "U" -> "u" [] OTHER -> c

\* str.strip(): leading and trailing whitespace removed.
RECURSIVE lstrip(_)
lstrip(s) == IF s # <<>> /\ Head(s) \in Whitespace THEN lstrip(Tail(s)) ELSE s
RECURSIVE rstrip(_)
rstrip(s) ==
    IF s # <<>> /\ s[Len(s)] \in Whitespace
    THEN rstrip(SubSeq(s, 1, Len(s) - 1)) ELSE s
str_strip(s) == rstrip(lstrip(s))

str_lower(s) == [i \in 1..Len(s) |-> lower_char(s[i])]

startswith(s, old) == Len(old) <= Len(s) /\ SubSeq(s, 1, Len(old)) = old

\* str.replace(old, new) with a literal, non-empty old: every
\* non-overlapping occurrence, left to right.
RECURSIVE str_replace(_, _, _)
str_replace(s, old, new) ==
    IF s = <<>> THEN <<>>
    ELSE IF startswith(s, old)
         THEN new \o str_replace(SubSeq(s, Len(old) + 1, Len(s)), old, new)
         ELSE <<Head(s)>> \o str_replace(Tail(s), old, new)

\* for char, replacement in character_map.items(): one replace per entry,
\* in insertion order, each on the result of the one before.
RECURSIVE apply_character_map(_, _)
apply_character_map(s, pairs) ==
    IF pairs = <<>> THEN s
    ELSE apply_character_map(
            str_replace(s, Head(pairs).key, Head(pairs).value), Tail(pairs))

\* str.replace(r'[^a-zA-Z0-9_]', '', regex=True)
WordChars == Lowercase \cup Uppercase \cup Digits \cup {"_"}
Letters == {"auml", "ouml", "uuml", "szlig"}     \* letters beyond ASCII
regex_remove_unicode(s) == SelectSeq(s, LAMBDA c : c \in WordChars \cup Letters)
regex_remove(s) == SelectSeq(s, LAMBDA c : c \in WordChars)

Entry(k, v) == [key |-> k, value |-> v]

\* The dictionary built once as the default of character_map.
DefaultCharacterMapTypo ==
    Dict(<< Entry(<<" ">>, <<"_">>), Entry(<<"a">>, <<"a", "e">>),
            Entry(<<"ouml">>, <<"o", "e">>), Entry(<<"uuml">>, <<"u", "e">>),
            Entry(<<"szlig">>, <<"s", "s">>) >>)
DefaultCharacterMap ==
    Dict(<< Entry(<<" ">>, <<"_">>), Entry(<<"auml">>, <<"a", "e">>),
            Entry(<<"ouml">>, <<"o", "e">>), Entry(<<"uuml">>, <<"u", "e">>),
            Entry(<<"szlig">>, <<"s", "s">>) >>)

fix_name(name, pairs) ==
    regex_remove(apply_character_map(str_lower(str_strip(name)), pairs))

\* The whole of fix_column_names; cm is the dictionary bound to
\* character_map (the default one when the caller leaves it out).
fix_column_names(d, cm) ==
    IF ~(isinstance(d, "DataFrame") \/ isinstance(d, "Index"))
    THEN Raise("TypeError")
    ELSE LET cols == IF isinstance(d, "DataFrame") THEN column_names(d)
                     ELSE d.items
         IN  Return(Index([i \in 1..Len(cols) |-> fix_name(cols[i], cm.pairs)]))

\* ------------------------------------------------------------- recode
dict_keys(pairs) == {pairs[i].key : i \in 1..Len(pairs)}
dict_get(pairs, k) == (CHOOSE i \in 1..Len(pairs) : pairs[i].key = k)
dict_values(pairs) == [i \in 1..Len(pairs) |-> pairs[i].value]

\* Series.replace(dict): every value that is a key becomes that key's
\* value; the keys are matched against the original values, all at once.
RECURSIVE replace_chained(_, _)
replace_chained(values, pairs) ==
    IF pairs = <<>> THEN values
    ELSE replace_chained(
            [i \in 1..Len(values) |->
                IF values[i] = Head(pairs).key THEN Head(pairs).value
                ELSE values[i]],
            Tail(pairs))
Series_replace(values, pairs) ==
    [i \in 1..Len(values) |->
        IF values[i] \in dict_keys(pairs)
        THEN pairs[dict_get(pairs, values[i])].value
        ELSE values[i]]

\* pd.Categorical(values, categories=..., ordered=...): duplicate
\* categories are refused; a value that is no category becomes missing.
pd_Categorical(values, categories, ord) ==
    IF ~Injective(categories) THEN Raise("ValueError")
    ELSE Return(Categorical(
            [i \in 1..Len(values) |->
                IF values[i] \in Range(categories) THEN values[i] ELSE NaN],
            categories, ord))

OrderedDefault == TRUE

\* The whole of recode_to_categorical.
recode_to_categorical(col, rc, ord) ==
    IF ~isinstance(col, "Series") THEN Raise("TypeError")
    ELSE IF ~isinstance(rc, "dict") THEN Raise("TypeError")
    ELSE pd_Categorical(Series_replace(col.values, rc.pairs),
                        dict_values(rc.pairs),
                        IF ord = Omitted THEN OrderedDefault ELSE ord.value)

\* ----------------------------------------------------------- describe
\* Skewness and kurtosis are floats, kept in tenths; nan is IEEE's NaN,
\* for which every comparison is false.
Float(x) == [nan |-> FALSE, x |-> x]
FloatNaN == [nan |-> TRUE, x |-> 0]
lt(a, b) == ~a.nan /\ ~b.nan /\ a.x < b.x
gt(a, b) == ~a.nan /\ ~b.nan /\ a.x > b.x
le(a, b) == ~a.nan /\ ~b.nan /\ a.x <= b.x

KurtosisLimit == 10   \* 1, in tenths
SkewLimit == 5        \* 0.5, in tenths

\* desc["normal"]
normal_inclusive(kurtosis, skew) ==
    /\ le(kurtosis, Float(KurtosisLimit))
    /\ gt(kurtosis, Float(-KurtosisLimit))
    /\ lt(skew, Float(SkewLimit))
    /\ gt(skew, Float(-SkewLimit))
normal(kurtosis, skew) ==
    /\ lt(kurtosis, Float(KurtosisLimit))
    /\ gt(kurtosis, Float(-KurtosisLimit))
    /\ lt(skew, Float(SkewLimit))
    /\ gt(skew, Float(-SkewLimit))

hasattr_select_dtypes(d) == isinstance(d, "DataFrame")

\* df.select_dtypes(include=[np.number]).columns.tolist()
select_dtypes_number(d) ==
    LET kept == SelectSeq(d.cols, LAMBDA c : c.dtype = "number")
    IN  [i \in 1..Len(kept) |-> kept[i].name]

column_named(d, n) == d.cols[CHOOSE i \in 1..Len(d.cols) : d.cols[i].name = n]

\* Lines 78-84 for a list of names: the selection df[columns] (KeyError
\* for a name that is no column), describe() (ValueError for an empty
\* selection), and the skew, kurtosis and normal entries per column. The
\* skewness and kurtosis pandas computes are attributes of the column;
\* the other statistics of describe() are left out.
describe_columns(d, names) ==
    IF \E i \in 1..Len(names) : names[i] \notin Range(column_names(d))
    THEN Raise("KeyError")
    ELSE IF names = <<>> THEN Raise("ValueError")
    ELSE Return(DataFrame(
            [i \in 1..Len(names) |->
                LET c == column_named(d, names[i])
                IN  [name |-> c.name, skew |-> c.skew, kurtosis |-> c.kurtosis,
                     normal |-> normal(c.kurtosis, c.skew)]]))

\* The whole of better_describe.
better_describe(d, cols) ==
    IF cols = None /\ ~hasattr_select_dtypes(d) THEN Raise("AttributeError")
    ELSE LET columns1 == IF cols = None THEN List(select_dtypes_number(d))
                         ELSE cols
         IN  IF ~isinstance(d, "DataFrame") THEN Raise("TypeError")
             ELSE IF ~(isinstance(columns1, "list") \/ isinstance(columns1, "Index"))
             THEN Raise("TypeError")
             ELSE describe_columns(d, columns1.items)

\* ------------------------------------------------------------- inputs
ColumnNames == {"a", "b", "c"}
ListNames == {"a", "z"}
ColumnData == {<<NaN, NaN>>, <<"x", "x">>, <<"x", NaN>>, <<"x", "y">>}

SeqsUpTo(S, n) == UNION {[1..k -> S] : k \in 0..n}

Tables ==
    {DataFrame([i \in 1..Len(ns) |-> [name |-> ns[i], values |-> vs[i]]]) :
        <<ns, vs>> \in UNION {
            {s \in [1..k -> ColumnNames] : Injective(s)} \X [1..k -> ColumnData]
            : k \in 0..MaxCols}}

NameLists == {List(s) : s \in SeqsUpTo(ListNames, MaxList)}
NonLists == {Tuple(<<>>), Tuple(<<"a">>), Str(<<"a">>), Index(<<"a">>)}
KeepDropArgs == {None} \cup NameLists \cup NonLists

Chars == {" ", "a", "A", "auml"}
Strings(n) == SeqsUpTo(Chars, n)

\* Sequences of at most k names holding at most n characters together.
RECURSIVE NameSeqs(_, _)
NameSeqs(k, n) ==
    {<<>>} \cup
    (IF k = 0 THEN {}
     ELSE UNION {{<<name>> \o rest : rest \in NameSeqs(k - 1, n - Len(name))}
                 : name \in Strings(n)})

NameInputs ==
    UNION {{Index(ns),
            DataFrame([i \in 1..Len(ns) |-> [name |-> ns[i], values |-> <<>>]])}
           : ns \in NameSeqs(MaxNames, MaxLen)}
    \cup {List(<< <<"a">> >>), None}

CharacterMaps ==
    {Omitted,
     Dict(<<>>),
     Dict(<<Entry(<<"a">>, <<"a", "a">>)>>),
     Dict(<<Entry(<<"auml">>, <<"A">>)>>),
     Dict(<<Entry(<<"auml">>, <<" ">>), Entry(<<" ">>, <<"_">>)>>)}

RecodeKeys == {"1", "2", "low"}
Labels == {"low", "high"}
SeriesValues == RecodeKeys \cup Labels \cup {NaN}

RecodeDicts ==
    {Dict([i \in 1..Len(ks) |-> Entry(ks[i], ls[i])]) :
        <<ks, ls>> \in UNION {
            {s \in [1..k -> RecodeKeys] : Injective(s)} \X [1..k -> Labels]
            : k \in 0..MaxRecode}}

ColumnInputs ==
    {Series(vs) : vs \in SeqsUpTo(SeriesValues, MaxSeries)} \cup {List(<<"1">>)}
RecodeInputs == RecodeDicts \cup {List(<<"low">>)}
OrderedInputs == {Omitted, Bool(TRUE), Bool(FALSE)}

Moments(limit) ==
    {FloatNaN, Float(-limit), Float(1 - limit), Float(limit - 1), Float(limit)}

StatColumns(n) ==
    {[name |-> n, dtype |-> "number", skew |-> s, kurtosis |-> k] :
        <<s, k>> \in Moments(SkewLimit) \X Moments(KurtosisLimit)}
    \cup {[name |-> n, dtype |-> "object", skew |-> FloatNaN, kurtosis |-> FloatNaN]}

StatNames == {"a", "b"}
StatTables ==
    UNION {UNION {{DataFrame(cs) : cs \in {c \in [1..k -> UNION {StatColumns(n) : n \in StatNames}] :
                                      \A i \in 1..k : c[i].name = ns[i]}}
                  : ns \in {s \in [1..k -> StatNames] : Injective(s)}}
           : k \in 0..MaxStatCols}

ColumnsArgs ==
    {None, Str(<<"a">>)} \cup
    UNION {{List(s), Index(s), Tuple(s)} :
           s \in {t \in SeqsUpTo(ListNames, MaxList) : Injective(t)}}

\* The names an explicit columns argument may hold: numeric columns, or
\* names the table does not have.
Describable(d, cols) ==
    cols.type \in {"list", "Index"} /\ isinstance(d, "DataFrame") =>
        \A i \in 1..Len(cols.items) :
            cols.items[i] \in Range(column_names(d)) =>
                column_named(d, cols.items[i]).dtype = "number"

\* -------------------------------------------------------------- state
VARIABLES
    holding,                \* what the caller holds: the utilities it can call
    callee,                 \* the utility called last
    df, keep, drop,         \* the caller's objects, bound to the parameters
    columns, column, recode, ordered, character_map,
    default_character_map,  \* the dictionary shared by all calls as default
    ret,                    \* the outcome of the last call
    stdout                  \* what the calls have printed

args == <<df, keep, drop, columns, column, recode, ordered, character_map>>
vars == <<holding, callee, args, default_character_map, ret, stdout>>

InitTable ==
    /\ holding = "table"
    /\ df \in Tables
    /\ keep \in KeepDropArgs
    /\ drop \in KeepDropArgs
    /\ character_map = None /\ columns = None
    /\ column = None /\ recode = None /\ ordered = None

InitNames ==
    /\ holding = "names"
    /\ df \in NameInputs
    /\ character_map \in CharacterMaps
    /\ keep = None /\ drop = None /\ columns = None
    /\ column = None /\ recode = None /\ ordered = None

InitRecode ==
    /\ holding = "column"
    /\ column \in ColumnInputs
    /\ recode \in RecodeInputs
    /\ ordered \in OrderedInputs
    /\ df = None /\ keep = None /\ drop = None /\ columns = None
    /\ character_map = None

InitDescribe ==
    /\ holding = "statistics"
    /\ df \in StatTables \cup {None, List(<<>>)}
    /\ columns \in {c \in ColumnsArgs : Describable(df, c)}
    /\ keep = None /\ drop = None /\ column = None /\ recode = None
    /\ ordered = None /\ character_map = None

Init ==
    /\ InitTable \/ InitNames \/ InitRecode \/ InitDescribe
    /\ default_character_map = DefaultCharacterMap
    /\ callee = "none"
    /\ ret = Pending
    /\ stdout = <<>>

call_informative_columns ==
    /\ holding = "table"
    /\ callee' = "informative_columns"
    /\ ret' = Return(informative_columns(df))
    /\ UNCHANGED <<holding, args, default_character_map, stdout>>

call_fix_column_names ==
    /\ holding = "names"
    /\ callee' = "fix_column_names"
    /\ ret' = fix_column_names(df, IF character_map = Omitted
                                   THEN default_character_map
                                   ELSE character_map)
    /\ UNCHANGED <<holding, args, default_character_map, stdout>>

call_recode_to_categorical ==
    /\ holding = "column"
    /\ callee' = "recode_to_categorical"
    /\ ret' = recode_to_categorical(column, recode, ordered)
    /\ UNCHANGED <<holding, args, default_character_map, stdout>>

call_better_describe ==
    /\ holding = "statistics"
    /\ callee' = "better_describe"
    /\ ret' = better_describe(df, columns)
    /\ UNCHANGED <<holding, args, default_character_map, stdout>>

call_drop_no_information_columns ==
    /\ holding = "table"
    /\ callee' = "drop_no_information_columns"
    /\ Len(stdout) < MaxPrinted
    /\ LET out == drop_no_information_columns(df, keep, drop)
       IN  /\ ret' = out.ret
           /\ stdout' = stdout \o out.printed
           /\ df' = out.df
    /\ UNCHANGED <<holding, keep, drop, columns, column, recode, ordered,
                   character_map, default_character_map>>

Next ==
    \/ call_informative_columns
    \/ call_fix_column_names
    \/ call_recode_to_categorical
    \/ call_better_describe
    \/ call_drop_no_information_columns

Spec == Init /\ [][Next]_vars

\* ------------------------------------------------------------- claims
Called(f) == callee = f /\ ret.kind # "pending"

\* The distinct non-missing values of a column, and the names of the
\* columns satisfying a test, in the table's order.
DistinctValues(c) == {v \in Range(c.values) : v # NaN}
NamesCounting(d, counts) ==
    LET kept == SelectSeq(d.cols, LAMBDA c : Cardinality(DistinctValues(c)) \in counts)
    IN  [i \in 1..Len(kept) |-> kept[i].name]
NonEmptyList(x) == x.type = "list" /\ x.items # <<>>

ExistingOrOmitted(x) ==
    x = None \/ (x.type = "list" /\ Range(x.items) \subseteq Range(column_names(df)))

\* C1 (as claimed): with a non-empty keep list (and drop left out or a list
\* of existing names) the call returns a table in which every kept name
\* that is a column of the input is still a column.
C1_KeptColumnsRetained ==
    Called("drop_no_information_columns") /\ NonEmptyList(keep)
    /\ ExistingOrOmitted(drop) =>
        /\ ret.kind = "ok"
        /\ \A n \in Range(keep.items) \cap Range(column_names(df)) :
                n \in Range(column_names(ret.value))

\* C2: with keep left out and drop left out or a list of existing names, the
\* call returns the input's columns that have more than one distinct
\* non-missing value and are not named in drop, in the input's order.
C2_DropExact ==
    Called("drop_no_information_columns") /\ keep = None
    /\ ExistingOrOmitted(drop)
    =>  /\ ret.kind = "ok"
        /\ ret.value = DataFrame(SelectSeq(df.cols, LAMBDA c :
                /\ Cardinality(DistinctValues(c)) > 1
                /\ (drop # None => c.name \notin Range(drop.items))))

C2_Witness ==
    /\ Called("drop_no_information_columns") /\ keep = None
    /\ NonEmptyList(drop) /\ ret.kind = "ok"
    /\ Len(df.cols) = MaxCols
    /\ \E i \in 1..Len(df.cols) :
          /\ Cardinality(DistinctValues(df.cols[i])) = 1
          /\ df.cols[i].name \notin Range(drop.items)
    /\ \E i \in 1..Len(df.cols) :
          /\ Cardinality(DistinctValues(df.cols[i])) > 1
          /\ df.cols[i].name \in Range(drop.items)

\* C3: the three lists are the names of the columns with 0, with exactly 1
\* and with more than 1 distinct non-missing values, each in the table's
\* order; they are pairwise disjoint and hold every column name once.
C3_Partition ==
    Called("informative_columns") =>
        LET r == ret.value
            all == r.no_information \o r.always_the_same \o r.contains_information
        IN  /\ ret.kind = "ok"
            /\ r.no_information = NamesCounting(df, {0})
            /\ r.always_the_same = NamesCounting(df, {1})
            /\ r.contains_information = NamesCounting(df, Nat \ {0, 1})
            /\ Injective(all)
            /\ Range(all) = Range(column_names(df))

C3_Witness ==
    /\ Called("informative_columns")
    /\ Len(ret.value.always_the_same) = MaxCols
    /\ ret.value.always_the_same[1] = "c"
    /\ \E i \in 1..Len(df.cols) : NaN \in Range(df.cols[i].values)

\* The character map a call of fix_column_names works with.
EffectiveMap == IF character_map = Omitted THEN default_character_map
                ELSE character_map
NameInput == IF isinstance(df, "DataFrame") THEN column_names(df) ELSE df.items
LowercaseOnly(name) ==
    \A i \in 1..Len(name) : name[i] \in Lowercase \cup Digits \cup {"_"}
SameLengthLowercase ==
    /\ Len(ret.value.items) = Len(NameInput)
    /\ \A i \in 1..Len(ret.value.items) : LowercaseOnly(ret.value.items[i])
NoUppercaseValues(cm) ==
    \A i \in 1..Len(cm.pairs) : Range(cm.pairs[i].value) \cap Uppercase = {}
KeysOutsideOutput(cm) ==
    \A i \in 1..Len(cm.pairs) :
        Range(cm.pairs[i].key) \ (Lowercase \cup Digits \cup {"_"}) # {}

\* C4 (as claimed): for every character map, every returned name consists
\* of lowercase letters, digits and underscores, and the output is as long
\* as the input.
C4_AnyMapLowercase ==
    Called("fix_column_names") /\ ret.kind = "ok" => SameLengthLowercase

\* C4 (amended): the same, for every character map none of whose
\* replacement strings holds an uppercase letter (the default map is one).
C4_LowercaseOutput ==
    Called("fix_column_names") /\ ret.kind = "ok"
    /\ NoUppercaseValues(EffectiveMap) => SameLengthLowercase

C4_Witness ==
    /\ Called("fix_column_names") /\ ret.kind = "ok"
    /\ character_map = Dict(<<>>)
    /\ NameInput = << <<"A", "auml", " ">>  >>
    /\ ret.value.items = << <<"a">> >>

\* C5 (as claimed): for every character map, normalising the output again
\* with the same map returns it unchanged.
C5_AnyMapIdempotent ==
    Called("fix_column_names") /\ ret.kind = "ok" =>
        fix_column_names(ret.value, EffectiveMap) = ret

\* C5 (amended): the same, with the default character map, or with a map
\* in which every key holds a character that is no lowercase letter, digit
\* or underscore and no replacement holds an uppercase letter.
C5_Idempotent ==
    Called("fix_column_names") /\ ret.kind = "ok"
    /\ (character_map = Omitted
        \/ (KeysOutsideOutput(character_map) /\ NoUppercaseValues(character_map)))
    => fix_column_names(ret.value, EffectiveMap) = ret

C5_Witness ==
    /\ Called("fix_column_names") /\ ret.kind = "ok"
    /\ character_map = Omitted
    /\ NameInput = << <<"A", " ", "auml">> >>
    /\ ret.value.items = << <<"a", "_", "a", "e">> >>

Inside(x, limit) == ~x.nan /\ -limit < x.x /\ x.x < limit

LabelOf(rc, v) == (CHOOSE e \in Range(rc.pairs) : e.key = v).value
RecodeLabels(rc) == {e.value : e \in Range(rc.pairs)}
DistinctLabels(rc) == Cardinality(RecodeLabels(rc)) = Len(rc.pairs)

\* C7: for a column and a dictionary with pairwise distinct labels the
\* result is a categorical as long as the column; a value that is a key
\* becomes its label, a value that is no key but a label stays, any other
\* value becomes missing; the categories are the dictionary's values in
\* insertion order; ordered is true unless the caller passes false.
C7_Recode ==
    Called("recode_to_categorical") /\ isinstance(column, "Series")
    /\ isinstance(recode, "dict") /\ DistinctLabels(recode) =>
        /\ ret.kind = "ok"
        /\ Len(ret.value.values) = Len(column.values)
        /\ \A i \in 1..Len(column.values) :
              LET v == column.values[i]
              IN  ret.value.values[i] =
                    IF v \in dict_keys(recode.pairs) THEN LabelOf(recode, v)
                    ELSE IF v \in RecodeLabels(recode) THEN v
                    ELSE NaN
        /\ ret.value.categories = [i \in 1..Len(recode.pairs) |-> recode.pairs[i].value]
        /\ ret.value.ordered = (ordered # Bool(FALSE))

C7_Witness ==
    /\ Called("recode_to_categorical") /\ ret.kind = "ok"
    /\ ordered = Omitted
    /\ recode = Dict(<<Entry("1", "low"), Entry("low", "high")>>)
    /\ column = Series(<<"1", "low">>)
    /\ ret.value.values = <<"low", "high">>

\* C8 (as claimed): a first argument that is no table gives a type error
\* whatever columns is, and so does a table with a columns argument that
\* is supplied and neither a list nor an Index.
C8_TypeErrors ==
    Called("better_describe")
    /\ (~isinstance(df, "DataFrame")
        \/ (columns # None /\ columns.type \notin {"list", "Index"}))
    => ret.kind = "TypeError"

\* What the calls printed last, and the outcome and notice of the call
\* with other keep and drop arguments.
LastPrinted == IF stdout = <<>> THEN <<>> ELSE <<stdout[Len(stdout)]>>
SameAsCall(k, dr) ==
    LET other == drop_no_information_columns(df, k, dr)
    IN  ret = other.ret /\ LastPrinted = other.printed
SuppliedNonList(x) == x # None /\ x.type # "list"
HasTruthValue(x) == x.type \in {"tuple", "str"}

\* C9 (as claimed): a keep, and likewise a drop, that is supplied and no
\* list is ignored: the call ends as the call without it ends.
C9_NonListIgnored ==
    Called("drop_no_information_columns") =>
        /\ SuppliedNonList(keep) => SameAsCall(None, drop)
        /\ SuppliedNonList(drop) => SameAsCall(keep, None)

\* C9 (amended): the same for a non-list that has a truth value (a tuple,
\* a string); a pandas Index has none and the call raises ValueError.
C9_NonListWithTruthValueIgnored ==
    Called("drop_no_information_columns") =>
        /\ SuppliedNonList(keep) /\ HasTruthValue(keep) => SameAsCall(None, drop)
        /\ SuppliedNonList(drop) /\ HasTruthValue(drop) => SameAsCall(keep, None)
        /\ (isinstance(keep, "Index") \/ isinstance(drop, "Index"))
              => ret.kind = "ValueError"

C9_Witness ==
    /\ Called("drop_no_information_columns")
    /\ keep = Tuple(<<"a">>) /\ drop = None
    /\ ret.kind = "ok"
    /\ "a" \in Range(column_names(df))
    /\ "a" \notin Range(column_names(ret.value))
    /\ stdout # <<>>

\* C10: no call changes the caller's objects or the shared default
\* character map, whether it returns or raises; only
\* drop_no_information_columns prints.
C10_InputsUnchanged ==
    [][/\ args' = args
       /\ default_character_map' = default_character_map
       /\ stdout' # stdout => callee' = "drop_no_information_columns"]_vars

C10_Witness ==
    /\ Called("drop_no_information_columns")
    /\ ret.kind = "ok" /\ stdout # <<>>
    /\ Len(df.cols) = MaxCols
    /\ ret.value.cols = <<>>
====
